---- MODULE Spec2Model ----
(***************************************************************************)
(* A model of the Angular container (NgRx store, DataService,              *)
(* StoreBridgeService, AppComponent) and of the React micro-frontend that  *)
(* talks to it over the BroadcastChannel 'store-updates'.                  *)
(***************************************************************************)
EXTENDS Integers, Sequences, FiniteSets, TLC

(***************************************************************************)
(* Bounds of the model.                                                    *)
(***************************************************************************)
MaxItems == 12
MaxCalls == 7
MaxInbox == 2
MaxOutbox == 3
MaxTimers == 2
MaxComponentOps == 1
MaxListenerOps == 3
MaxPeerPosts == 2
MaxSanitizeLen == 2

(***************************************************************************)
(* Program constants.                                                      *)
(***************************************************************************)
BaselineCount == 7
DefaultCount == 5

VARIABLES
    appState,           \* the NgRx feature state 'app'
    loadPending,        \* the load effect's inner observable (switchMap keeps one)
    sampleData,         \* DataService.sampleData
    timers,             \* pending delay(500) callbacks, in the order they were set
    activeListeners,    \* StoreBridgeService.activeListeners
    dataSubscription,   \* StoreBridgeService.dataSubscription
    loadingSubscription,\* StoreBridgeService.loadingSubscription
    bridgeInbox,        \* messages queued for the bridge's onmessage
    listenerInbox,      \* messages queued for the React App's onmessage
    component,          \* AppComponent's lifecycle position
    listener,           \* the React App: its lifecycle position and its state
    used,               \* how many operations each actor has started so far
    calls,              \* the calls made so far that start or stop broadcasting
    posted,             \* what the bridge posted on the channel in the last step
    sanitizeIn,         \* an argument of sanitizeData
    sanitizeOut,        \* what sanitizeData returned for it
    providerCall,       \* the last call made on DataService directly
    providerResult,     \* what that call returned (the list its Observable delivers)
    storeAction,        \* the last action given to appReducer directly
    leaked              \* store subscriptions of the bridge that are live but held by no field

vars == <<appState, loadPending, sampleData, timers, activeListeners,
          dataSubscription, loadingSubscription, bridgeInbox, listenerInbox,
          component, listener, used, calls, posted, sanitizeIn, sanitizeOut,
          providerCall, providerResult, storeAction, leaked>>

(***************************************************************************)
(* Items.  `Item ${id}` and `Description for item ${id}` are kept as the   *)
(* template with the number that fills it.                                 *)
(***************************************************************************)
ItemFields == {"id", "name", "description"}

NewItem(newId) ==
    [id |-> newId, name |-> <<"Item", newId>>,
     description |-> <<"Description for item", newId>>]

InitialSampleData == [i \in 1..BaselineCount |-> NewItem(i)]

(***************************************************************************)
(* The store: app.state.ts, the reducer and the selectors.                 *)
(***************************************************************************)
initialAppState == [isLoaded |-> FALSE, loading |-> FALSE, error |-> "null", data |-> <<>>]

OnLoadApp(state) == [state EXCEPT !.loading = TRUE, !.error = "null"]

OnLoadAppSuccess(state, data) ==
    [state EXCEPT !.isLoaded = TRUE, !.loading = FALSE, !.data = data]

\* The loadAppFailure case dropping the list.
OnLoadAppFailureClears(state, error) ==
    [state EXCEPT !.loading = FALSE, !.error = error, !.data = <<>>]

OnLoadAppFailure(state, error) == [state EXCEPT !.loading = FALSE, !.error = error]

\* An action given to the reducer; `before` is the state it was applied to.
NoAction == [type |-> "none", data |-> <<>>, error |-> "null", before |-> initialAppState]
Action(type, data, error, before) ==
    [type |-> type, data |-> data, error |-> error, before |-> before]

selectAppData(state) == state.data

selectAppLoading(state) == state.loading

(***************************************************************************)
(* Messages on the channel: { type, payload }.  The payload is kept in the *)
(* field of its kind: an item list, a flag or a count.  A count is a       *)
(* JavaScript value: undefined (no payload), null, NaN, an integer n, or   *)
(* "huge", an integer above 2^32 - 1.  A DATA_UPDATE whose payload is an   *)
(* item list says so in its count field (ListPayload).                     *)
(***************************************************************************)
DATA_EVENT == "APP_STORE_DATA_UPDATE"
LOADING_EVENT == "APP_STORE_LOADING_UPDATE"
REQUEST_DATA_EVENT == "APP_STORE_REQUEST_DATA"
REQUEST_LOADING_EVENT == "APP_STORE_REQUEST_LOADING"
ADD_MORE_DATA_EVENT == "APP_STORE_ADD_MORE_DATA"
RESET_DATA_EVENT == "APP_STORE_RESET_DATA"

Undefined == [k |-> "undefined", n |-> 0]
Null == [k |-> "null", n |-> 0]
NaN == [k |-> "NaN", n |-> 0]
Huge == [k |-> "huge", n |-> 0]
Num(n) == [k |-> "int", n |-> n]
ListPayload == [k |-> "list", n |-> 0]

\* by names who posted the message (for the bridge: the handler that did); it is
\* not part of the message on the wire and no handler reads it.
Msg(type, list, flag, count, by) ==
    [type |-> type, list |-> list, flag |-> flag, count |-> count, by |-> by]
DataMsg(list, by) == Msg(DATA_EVENT, list, FALSE, ListPayload, by)
LoadingMsg(flag, by) == Msg(LOADING_EVENT, <<>>, flag, Undefined, by)
RequestMsg(type, by) == Msg(type, <<>>, FALSE, Undefined, by)
AddMsg(count, by) == Msg(ADD_MORE_DATA_EVENT, <<>>, FALSE, count, by)

(***************************************************************************)
(* StoreBridgeService.sanitizeData.  Its argument is any JavaScript value: *)
(* null or undefined, an array of objects, or something else (kind         *)
(* "other").  An object is a function from its field names to values.      *)
(***************************************************************************)
Arr(items) == [kind |-> "array", items |-> items]
NotCalled == [kind |-> "not called", items |-> <<>>]

SafeCopy(item) == [f \in DOMAIN item |-> item[f]]

sanitizeData(data) ==
    IF data.kind \in {"null", "undefined"}
    THEN Arr(<<>>)
    ELSE IF data.kind = "array"
         THEN Arr([i \in DOMAIN data.items |-> SafeCopy(data.items[i])])
         ELSE data

(***************************************************************************)
(* JSON.stringify of an item list, as distinctUntilChanged compares it:    *)
(* per item, its fields in the order the item was written.                 *)
(***************************************************************************)
JSONstringify(data) ==
    [i \in DOMAIN data |-> <<"id", data[i].id, "name", data[i].name,
                             "description", data[i].description>>]

(***************************************************************************)
(* The bridge's two store subscriptions.  A live subscription remembers    *)
(* the value it emitted last (distinctUntilChanged).                       *)
(***************************************************************************)
NoDataSubscription == [live |-> FALSE, last |-> <<>>]
NoLoadingSubscription == [live |-> FALSE, last |-> FALSE]

\* No distinctUntilChanged on the item list.
DataChangedAlways(sub, state) == sub.live

DataChanged(sub, state) ==
    sub.live /\ JSONstringify(selectAppData(state)) # JSONstringify(sub.last)

LoadingChanged(sub, state) == sub.live /\ selectAppLoading(state) # sub.last

\* What the subscriptions post when the store's state becomes `state`.
ChangeMsgs(dSub, lSub, state) ==
    (IF DataChanged(dSub, state)
     THEN <<DataMsg(sanitizeData(Arr(selectAppData(state))).items, "dataSubscription")>>
     ELSE <<>>)
    \o (IF LoadingChanged(lSub, state)
        THEN <<LoadingMsg(selectAppLoading(state), "loadingSubscription")>> ELSE <<>>)

DataSubAfter(dSub, state) ==
    IF DataChanged(dSub, state) THEN [dSub EXCEPT !.last = selectAppData(state)] ELSE dSub

LoadingSubAfter(lSub, state) ==
    IF LoadingChanged(lSub, state) THEN [lSub EXCEPT !.last = selectAppLoading(state)] ELSE lSub

\* startBroadcastingStoreUpdates with one distinctUntilChanged kept over the
\* stops: a value equal to the last one a field's subscription emitted is not
\* emitted again.
StartMsgsDistinct(state) ==
    ChangeMsgs([live |-> TRUE, last |-> dataSubscription.last],
               [live |-> TRUE, last |-> loadingSubscription.last], state)

\* startBroadcastingStoreUpdates: both subscriptions emit the current value at once.
StartMsgs(state) ==
    <<DataMsg(sanitizeData(Arr(selectAppData(state))).items, "dataSubscription"),
      LoadingMsg(selectAppLoading(state), "loadingSubscription")>>

StartedDataSub(state) == [live |-> TRUE, last |-> selectAppData(state)]

StartedLoadingSub(state) == [live |-> TRUE, last |-> selectAppLoading(state)]

\* Subscriptions that stay subscribed to the store though neither field holds
\* them any more.
NoLeaks == [data |-> <<>>, loading |-> <<>>]

\* cleanupSubscriptions clearing the two fields without unsubscribing.
cleanupSubscriptionsForgets(dSub, lSub) ==
    [data |-> IF dSub.live THEN <<dSub>> ELSE <<>>,
     loading |-> IF lSub.live THEN <<lSub>> ELSE <<>>]

\* cleanupSubscriptions: each field that holds a subscription is unsubscribed,
\* then set to null; what it leaves subscribed is nothing.
cleanupSubscriptions(dSub, lSub) == NoLeaks

Leak(held, more) ==
    [data |-> held.data \o more.data, loading |-> held.loading \o more.loading]

RECURSIVE Concat(_)
Concat(seqs) == IF seqs = <<>> THEN <<>> ELSE Head(seqs) \o Concat(Tail(seqs))

\* What subscriptions held by no field post when the store's state becomes `state`.
LeakedMsgs(held, state) ==
    Concat([i \in DOMAIN held.data |->
               ChangeMsgs(held.data[i], NoLoadingSubscription, state)])
    \o Concat([i \in DOMAIN held.loading |->
                  ChangeMsgs(NoDataSubscription, held.loading[i], state)])

LeakedAfter(held, state) ==
    [data |-> [i \in DOMAIN held.data |-> DataSubAfter(held.data[i], state)],
     loading |-> [i \in DOMAIN held.loading |-> LoadingSubAfter(held.loading[i], state)]]

(***************************************************************************)
(* dispatchStoreEvent: broadcastChannel.postMessage.  The message reaches  *)
(* the React App only if its channel is open at that moment.               *)
(***************************************************************************)
CanPost(msgs) == listener.phase = "mounted" => Len(listenerInbox) + Len(msgs) <= MaxOutbox

\* postMessage reaching the React App's channel after it was closed.
PostToClosed(msgs) ==
    /\ posted' = msgs
    /\ listenerInbox' = IF listener.phase # "none" THEN listenerInbox \o msgs ELSE listenerInbox

Post(msgs) ==
    /\ posted' = msgs
    /\ listenerInbox' = IF listener.phase = "mounted" THEN listenerInbox \o msgs ELSE listenerInbox

(***************************************************************************)
(* DataService.                                                            *)
(***************************************************************************)
\* No default parameter.
CountOrDefaultNever(count) == count

\* A default parameter (count: number = 5) replaces undefined only.
CountOrDefault(count) == IF count.k = "undefined" THEN Num(DefaultCount) ELSE count

\* Array.from({ length: count }): ToLength of the count; above 2^32 - 1 it throws.
ArrayFromThrows(count) == count.k = "huge"

ToLength(count) == IF count.k = "int" /\ count.n > 0 THEN count.n ELSE 0

\* addMoreData numbering its new items from 1.
addMoreDataRenumbers(data, count) ==
    data \o [index \in 1..ToLength(CountOrDefault(count)) |-> NewItem((index - 1) + 1)]

\* addMoreData without the + 1 in its new ids.
addMoreDataRepeatsId(data, count) ==
    data \o [index \in 1..ToLength(CountOrDefault(count)) |-> NewItem(Len(data) + (index - 1))]

addMoreData(data, count) ==
    data \o [index \in 1..ToLength(CountOrDefault(count)) |-> NewItem(Len(data) + (index - 1) + 1)]

\* resetData keeping the first added item.
resetDataKeepsOne == [i \in 1..BaselineCount + 1 |-> NewItem(i)]

\* resetData losing the last baseline item.
resetDataLosesLast == [i \in 1..BaselineCount - 1 |-> NewItem(i)]

resetData == [i \in 1..BaselineCount |-> NewItem(i)]

\* addCustomItem putting the new item first.
addCustomItemFirst(data, item) ==
    <<[id |-> Len(data) + 1, name |-> item.name, description |-> item.description]>> \o data

addCustomItem(data, item) ==
    Append(data, [id |-> Len(data) + 1, name |-> item.name, description |-> item.description])

\* getSampleData returning the seven items whatever the list holds.
getSampleDataBaseline(data) == SubSeq(data, 1, BaselineCount)

getSampleData(data) == data

\* A call made on DataService and what it gave back: the list its Observable
\* delivers, or the exception thrown before any Observable was made.
\* `before` is DataService.sampleData as the call found it.
NoCall == [op |-> "none", count |-> Undefined, item |-> <<>>, before |-> <<>>]
Call(op, count, item, before) == [op |-> op, count |-> count, item |-> item, before |-> before]
Returned(data) == [threw |-> FALSE, data |-> data]
Threw == [threw |-> TRUE, data |-> <<>>]

(***************************************************************************)
(* Pending asynchronous work.  A delay(500) callback either answers a      *)
(* request of the React App with the list its DataService call returned,   *)
(* or reloads the store (AppComponent).  The load effect's delay(1000) is  *)
(* loadPending.                                                            *)
(***************************************************************************)
Respond(data, handler) == [kind |-> "respond", data |-> data, handler |-> handler]
Reload == [kind |-> "reload", data |-> <<>>, handler |-> "AppComponent"]
NoLoad == [pending |-> FALSE, data |-> <<>>]

\* exhaustMap in place of switchMap: a load dispatched while one is pending is
\* dropped and the earlier one goes on.
LoadUnlessPending(data) ==
    IF loadPending.pending THEN loadPending ELSE [pending |-> TRUE, data |-> data]

\* switchMap: the new inner Observable replaces the pending one.
Load(data) == [pending |-> TRUE, data |-> data]

(***************************************************************************)
(* The React App.                                                          *)
(***************************************************************************)
CountTexts == {"", "0", "3", "99999999999"}

\* parseInt(text, 10) of the digit strings the count field can hold.
ParseInt(text) ==
    CASE text = "" -> NaN
      [] text = "0" -> Num(0)
      [] text = "3" -> Num(3)
      [] text = "99999999999" -> Huge

\* value || 1
\* requestMoreData asking for one item whatever the field holds.
OrOneAlways(count) == Num(1)

\* requestMoreData sending what parseInt gave, with no `|| 1`.
OrOneAbsent(count) == count

OrOne(count) == IF count.k = "NaN" \/ (count.k = "int" /\ count.n = 0) THEN Num(1) ELSE count

InitialListener ==
    [phase |-> "none", data |-> <<>>, loading |-> FALSE, storeAvailable |-> FALSE,
     requestAttempted |-> FALSE, requestTimeout |-> FALSE, addItemCount |-> "3"]

(***************************************************************************)
(* The initial state: the services and AppComponent are constructed, the   *)
(* React App is not mounted.                                               *)
(***************************************************************************)
Init ==
    /\ appState = initialAppState
    /\ loadPending = NoLoad
    /\ sampleData = InitialSampleData
    /\ timers = <<>>
    /\ activeListeners = 0
    /\ dataSubscription = NoDataSubscription
    /\ loadingSubscription = NoLoadingSubscription
    /\ bridgeInbox = <<>>
    /\ listenerInbox = <<>>
    /\ component = "constructed"
    /\ listener = InitialListener
    /\ used = [component |-> 0, listener |-> 0, peer |-> 0]
    /\ calls = <<>>
    /\ posted = <<>>
    /\ sanitizeIn = Arr(<<>>)
    /\ sanitizeOut = NotCalled
    /\ providerCall = NoCall
    /\ providerResult = Returned(<<>>)
    /\ storeAction = NoAction
    /\ leaked = NoLeaks

(***************************************************************************)
(* StoreBridgeService: what each handler posts.                            *)
(***************************************************************************)
\* sendCurrentData with an empty list taken for "nothing to send".
sendCurrentDataSkipsEmpty(state) ==
    IF selectAppData(state) = <<>> THEN <<>>
    ELSE <<DataMsg(sanitizeData(Arr(selectAppData(state))).items, "sendCurrentData")>>

\* sendCurrentLoadingState answering "not loading" whatever the store holds.
sendCurrentLoadingStateIdle(state) == <<LoadingMsg(FALSE, "sendCurrentLoadingState")>>

\* sendCurrentData: subscribe, get the current list at once, unsubscribe.
sendCurrentData(state) ==
    <<DataMsg(sanitizeData(Arr(selectAppData(state))).items, "sendCurrentData")>>

\* sendCurrentLoadingState
sendCurrentLoadingState(state) ==
    <<LoadingMsg(selectAppLoading(state), "sendCurrentLoadingState")>>

\* The next callback with its two dispatchStoreEvent calls in the other order.
OnNextLoadingFirst(data, handler) ==
    <<LoadingMsg(FALSE, handler), DataMsg(sanitizeData(Arr(data)).items, handler)>>

\* The next callback of handleAddMoreData and of handleResetData (`handler`).
OnNext(data, handler) ==
    <<DataMsg(sanitizeData(Arr(data)).items, handler), LoadingMsg(FALSE, handler)>>

\* activateBroadcasting counting each call twice.
ActivatedCountTwice(n) == n + 2

\* deactivateBroadcasting without its floor at 0.
DeactivatedCountUnfloored(n) == n - 1

\* activateBroadcasting starting the broadcast on every call, or on none.
ActivateStartsAlways(n) == TRUE

ActivateStartsNever(n) == FALSE

\* activateBroadcasting and deactivateBroadcasting: the count they leave.
ActivatedCount(n) == n + 1

DeactivatedCount(n) == IF n - 1 <= 0 THEN 0 ELSE n - 1

\* Whether activateBroadcasting starts, and deactivateBroadcasting stops, the broadcast.
ActivateStarts(n) == ActivatedCount(n) = 1

DeactivateStops(n) == n - 1 <= 0

sanitizeVars == <<sanitizeIn, sanitizeOut>>
ghostVars == <<sanitizeVars, providerCall, providerResult, storeAction>>
callVars == <<ghostVars, leaked>>

\* An actor starts one more operation, within its bound.
Uses(actor, max) == used[actor] < max /\ used' = [used EXCEPT ![actor] = @ + 1]
listenerVars == <<listener, listenerInbox>>
providerVars == <<sampleData, timers>>
subscriptions == <<dataSubscription, loadingSubscription>>

\* store.dispatch(loadApp()): the reducer runs, the subscriptions see the new
\* state, and the load effect switches to a new getSampleData().  With `after`,
\* startBroadcastingStoreUpdates follows in the same handler (ngOnInit).
DispatchLoadApp(after) ==
    LET state == OnLoadApp(appState)
        msgs == LeakedMsgs(leaked, state)
                \o ChangeMsgs(dataSubscription, loadingSubscription, state)
                \o (IF after THEN StartMsgs(state) ELSE <<>>)
    IN /\ CanPost(msgs)
       /\ appState' = state
       /\ loadPending' = Load(getSampleData(sampleData))
       /\ leaked' =
              IF after
              THEN Leak(LeakedAfter(leaked, state),
                        cleanupSubscriptions(DataSubAfter(dataSubscription, state),
                                             LoadingSubAfter(loadingSubscription, state)))
              ELSE LeakedAfter(leaked, state)
       /\ dataSubscription' =
              IF after THEN StartedDataSub(state) ELSE DataSubAfter(dataSubscription, state)
       /\ loadingSubscription' =
              IF after THEN StartedLoadingSub(state)
              ELSE LoadingSubAfter(loadingSubscription, state)
       /\ Post(msgs)

(***************************************************************************)
(* AppComponent.                                                           *)
(***************************************************************************)
\* ngOnInit: dispatch loadApp, then startBroadcastingStoreUpdates.
NgOnInit ==
    /\ component = "constructed"
    /\ component' = "initialized"
    /\ DispatchLoadApp(TRUE)
    /\ calls' = Append(calls, "ngOnInit")
    /\ UNCHANGED <<used, providerVars, activeListeners, bridgeInbox, listener, ghostVars>>

\* ngOnDestroy: stopBroadcastingStoreUpdates.
NgOnDestroy ==
    /\ component = "initialized"
    /\ component' = "destroyed"
    /\ dataSubscription' = NoDataSubscription
    /\ loadingSubscription' = NoLoadingSubscription
    /\ leaked' = Leak(leaked, cleanupSubscriptions(dataSubscription, loadingSubscription))
    /\ Post(<<>>)
    /\ calls' = Append(calls, "ngOnDestroy")
    /\ UNCHANGED <<used, appState, loadPending, providerVars, activeListeners, bridgeInbox,
                   listener, ghostVars>>

ComponentCounts == {2}

\* addMoreData(count), from the component's own controls.
ComponentAddMoreData ==
    /\ component = "initialized"
    /\ Uses("component", MaxComponentOps)
    /\ Len(timers) < MaxTimers
    /\ \E count \in ComponentCounts :
          /\ Len(sampleData) + count <= MaxItems
          /\ sampleData' = addMoreData(sampleData, Num(count))
    /\ timers' = Append(timers, Reload)
    /\ Post(<<>>)
    /\ UNCHANGED <<appState, loadPending, activeListeners, subscriptions, bridgeInbox,
                   component, listener, calls, callVars>>

\* resetData(), from the component's own controls.
ComponentResetData ==
    /\ component = "initialized"
    /\ Uses("component", MaxComponentOps)
    /\ Len(timers) < MaxTimers
    /\ sampleData' = resetData
    /\ timers' = Append(timers, Reload)
    /\ Post(<<>>)
    /\ UNCHANGED <<appState, loadPending, activeListeners, subscriptions, bridgeInbox,
                   component, listener, calls, callVars>>

CustomItems == {[name |-> <<"Custom", 1>>, description |-> <<"Custom description", 1>>]}

\* addCustomData(), with the form's name and description.
ComponentAddCustomData ==
    /\ component = "initialized"
    /\ Uses("component", MaxComponentOps)
    /\ Len(timers) < MaxTimers
    /\ Len(sampleData) + 1 <= MaxItems
    /\ \E item \in CustomItems : sampleData' = addCustomItem(sampleData, item)
    /\ timers' = Append(timers, Reload)
    /\ Post(<<>>)
    /\ UNCHANGED <<appState, loadPending, activeListeners, subscriptions, bridgeInbox,
                   component, listener, calls, callVars>>

\* A delay(500) of the component ends: store.dispatch(loadApp()).
ReloadTimerFires ==
    /\ timers # <<>>
    /\ Head(timers).kind = "reload"
    /\ timers' = Tail(timers)
    /\ DispatchLoadApp(FALSE)
    /\ UNCHANGED <<used, sampleData, activeListeners, bridgeInbox, component, listener, calls,
                   ghostVars>>

\* The load effect's getSampleData() delivers: loadAppSuccess({ data }).
LoadCompletes ==
    /\ loadPending.pending
    /\ LET state == OnLoadAppSuccess(appState, loadPending.data)
           msgs == LeakedMsgs(leaked, state)
                   \o ChangeMsgs(dataSubscription, loadingSubscription, state)
       IN /\ CanPost(msgs)
          /\ appState' = state
          /\ dataSubscription' = DataSubAfter(dataSubscription, state)
          /\ loadingSubscription' = LoadingSubAfter(loadingSubscription, state)
          /\ leaked' = LeakedAfter(leaked, state)
          /\ Post(msgs)
    /\ loadPending' = NoLoad
    /\ UNCHANGED <<used, providerVars, activeListeners, bridgeInbox, component, listener, calls,
                   ghostVars>>

(***************************************************************************)
(* StoreBridgeService: activateBroadcasting and deactivateBroadcasting.    *)
(***************************************************************************)
Activate ==
    /\ Len(calls) < MaxCalls
    /\ activeListeners' = ActivatedCount(activeListeners)
    /\ IF ActivateStarts(activeListeners)
       THEN /\ CanPost(StartMsgs(appState))
            /\ dataSubscription' = StartedDataSub(appState)
            /\ loadingSubscription' = StartedLoadingSub(appState)
            /\ leaked' = Leak(leaked, cleanupSubscriptions(dataSubscription, loadingSubscription))
            /\ Post(StartMsgs(appState))
       ELSE /\ UNCHANGED <<subscriptions, leaked>>
            /\ Post(<<>>)
    /\ calls' = Append(calls, "activate")
    /\ UNCHANGED <<used, appState, loadPending, providerVars, bridgeInbox, component, listener,
                   ghostVars>>

Deactivate ==
    /\ Len(calls) < MaxCalls
    /\ activeListeners' = DeactivatedCount(activeListeners)
    /\ IF DeactivateStops(activeListeners)
       THEN /\ dataSubscription' = NoDataSubscription
            /\ loadingSubscription' = NoLoadingSubscription
            /\ leaked' = Leak(leaked, cleanupSubscriptions(dataSubscription, loadingSubscription))
       ELSE UNCHANGED <<subscriptions, leaked>>
    /\ Post(<<>>)
    /\ calls' = Append(calls, "deactivate")
    /\ UNCHANGED <<used, appState, loadPending, providerVars, bridgeInbox, component, listener,
                   ghostVars>>

(***************************************************************************)
(* StoreBridgeService: broadcastChannel.onmessage, one action per branch.  *)
(***************************************************************************)
Receives(type) ==
    /\ bridgeInbox # <<>>
    /\ Head(bridgeInbox).type = type
    /\ bridgeInbox' = Tail(bridgeInbox)

ReceiveRequestData ==
    /\ Receives(REQUEST_DATA_EVENT)
    /\ CanPost(sendCurrentData(appState))
    /\ Post(sendCurrentData(appState))
    /\ UNCHANGED <<used, appState, loadPending, providerVars, activeListeners, subscriptions,
                   component, listener, calls, callVars>>

ReceiveRequestLoading ==
    /\ Receives(REQUEST_LOADING_EVENT)
    /\ CanPost(sendCurrentLoadingState(appState))
    /\ Post(sendCurrentLoadingState(appState))
    /\ UNCHANGED <<used, appState, loadPending, providerVars, activeListeners, subscriptions,
                   component, listener, calls, callVars>>

\* handleAddMoreData(event.data.payload)
ReceiveAddMoreData ==
    /\ Receives(ADD_MORE_DATA_EVENT)
    /\ LET count == CountOrDefault(Head(bridgeInbox).count)
       IN IF ArrayFromThrows(count)
          THEN UNCHANGED providerVars
          ELSE /\ Len(timers) < MaxTimers
               /\ Len(sampleData) + ToLength(count) <= MaxItems
               /\ sampleData' = addMoreData(sampleData, count)
               /\ timers' = Append(timers, Respond(sampleData', "handleAddMoreData"))
    /\ Post(<<>>)
    /\ UNCHANGED <<used, appState, loadPending, activeListeners, subscriptions, component,
                   listener, calls, callVars>>

\* handleResetData()
ReceiveResetData ==
    /\ Receives(RESET_DATA_EVENT)
    /\ Len(timers) < MaxTimers
    /\ sampleData' = resetData
    /\ timers' = Append(timers, Respond(sampleData', "handleResetData"))
    /\ Post(<<>>)
    /\ UNCHANGED <<used, appState, loadPending, activeListeners, subscriptions, component,
                   listener, calls, callVars>>

RequestTypes ==
    {REQUEST_DATA_EVENT, REQUEST_LOADING_EVENT, ADD_MORE_DATA_EVENT, RESET_DATA_EVENT}

\* onmessage writing the store: an ignored message puts back the initial state.
ReceiveOtherResets ==
    /\ bridgeInbox # <<>>
    /\ Head(bridgeInbox).type \notin RequestTypes
    /\ bridgeInbox' = Tail(bridgeInbox)
    /\ appState' = initialAppState
    /\ Post(<<>>)
    /\ UNCHANGED <<used, loadPending, providerVars, activeListeners, subscriptions,
                   component, listener, calls, callVars>>

\* A message with no type, or of a type none of the branches names.
ReceiveOther ==
    /\ bridgeInbox # <<>>
    /\ Head(bridgeInbox).type \notin RequestTypes
    /\ bridgeInbox' = Tail(bridgeInbox)
    /\ Post(<<>>)
    /\ UNCHANGED <<used, appState, loadPending, providerVars, activeListeners, subscriptions,
                   component, listener, calls, callVars>>

\* A delay(500) of the bridge ends: the next callback posts the answer.
ResponseTimerFires ==
    /\ timers # <<>>
    /\ Head(timers).kind = "respond"
    /\ timers' = Tail(timers)
    /\ CanPost(OnNext(Head(timers).data, Head(timers).handler))
    /\ Post(OnNext(Head(timers).data, Head(timers).handler))
    /\ UNCHANGED <<used, appState, loadPending, sampleData, activeListeners, subscriptions,
                   bridgeInbox, component, listener, calls, callVars>>

(***************************************************************************)
(* The React App (the BroadcastChannel micro-frontend).                    *)
(***************************************************************************)
bridgeVars == <<appState, loadPending, providerVars, activeListeners, subscriptions,
                component, calls>>

\* requestCurrentData asking for the data twice.
requestCurrentDataTwice ==
    <<RequestMsg(REQUEST_DATA_EVENT, "App"), RequestMsg(REQUEST_DATA_EVENT, "App")>>

\* requestCurrentData: post REQUEST_DATA, then REQUEST_LOADING.
requestCurrentData ==
    <<RequestMsg(REQUEST_DATA_EVENT, "App"), RequestMsg(REQUEST_LOADING_EVENT, "App")>>

CanRequest(msgs) == Len(bridgeInbox) + Len(msgs) <= MaxInbox

\* The constructor opens the channel; componentDidMount listens, requests the
\* current data and sets the 2000 ms timeout.
Mount ==
    /\ listener.phase = "none"
    /\ CanRequest(requestCurrentData)
    /\ bridgeInbox' = bridgeInbox \o requestCurrentData
    /\ listener' = [listener EXCEPT !.phase = "mounted", !.data = <<>>, !.loading = FALSE,
                                    !.storeAvailable = FALSE, !.requestAttempted = TRUE,
                                    !.requestTimeout = TRUE]
    /\ posted' = <<>>
    /\ UNCHANGED <<used, bridgeVars, listenerInbox, callVars>>

\* payload || []: an absent or null payload gives the empty list.
PayloadOrEmpty(msg) == IF msg.count = ListPayload THEN msg.list ELSE <<>>

\* handleBroadcastMessage dropping what arrives once the timeout has fired.
handleBroadcastMessageInTime(state, msg) ==
    IF msg.type = DATA_EVENT /\ state.requestTimeout
    THEN [state EXCEPT !.data = PayloadOrEmpty(msg), !.storeAvailable = TRUE]
    ELSE IF msg.type = LOADING_EVENT THEN [state EXCEPT !.loading = msg.flag] ELSE state

\* handleBroadcastMessage taking only the first DATA_UPDATE.
handleBroadcastMessageOnce(state, msg) ==
    IF msg.type = DATA_EVENT /\ ~state.storeAvailable
    THEN [state EXCEPT !.data = PayloadOrEmpty(msg), !.storeAvailable = TRUE]
    ELSE IF msg.type = LOADING_EVENT THEN [state EXCEPT !.loading = msg.flag] ELSE state

\* handleBroadcastMessage dropping the list on a LOADING_UPDATE.
handleBroadcastMessageClears(state, msg) ==
    IF msg.type = DATA_EVENT
    THEN [state EXCEPT !.data = PayloadOrEmpty(msg), !.storeAvailable = TRUE]
    ELSE IF msg.type = LOADING_EVENT
         THEN [state EXCEPT !.loading = msg.flag, !.data = <<>>]
         ELSE state

\* handleBroadcastMessage showing the loading indicator for any other type.
handleBroadcastMessageBusy(state, msg) ==
    IF msg.type = DATA_EVENT
    THEN [state EXCEPT !.data = PayloadOrEmpty(msg), !.storeAvailable = TRUE]
    ELSE IF msg.type = LOADING_EVENT
         THEN [state EXCEPT !.loading = msg.flag]
         ELSE IF msg.type = "" THEN state ELSE [state EXCEPT !.loading = TRUE]

\* handleBroadcastMessage
handleBroadcastMessage(state, msg) ==
    IF msg.type = "" THEN state
    ELSE IF msg.type = DATA_EVENT
         THEN [state EXCEPT !.data = PayloadOrEmpty(msg), !.storeAvailable = TRUE]
         ELSE IF msg.type = LOADING_EVENT
              THEN [state EXCEPT !.loading = msg.flag]
              ELSE state

ListenerReceives ==
    /\ listener.phase = "mounted"
    /\ listenerInbox # <<>>
    /\ listenerInbox' = Tail(listenerInbox)
    /\ listener' = handleBroadcastMessage(listener, Head(listenerInbox))
    /\ posted' = <<>>
    /\ UNCHANGED <<used, bridgeVars, bridgeInbox, callVars>>

\* The timeout marking the connection as lost whatever has arrived.
TimeoutFiresDisconnects ==
    /\ listener.phase = "mounted"
    /\ listener.requestTimeout
    /\ listener' = [listener EXCEPT !.requestTimeout = FALSE, !.requestAttempted = TRUE,
                                    !.storeAvailable = FALSE]
    /\ posted' = <<>>
    /\ UNCHANGED <<used, bridgeVars, bridgeInbox, listenerInbox, callVars>>

\* The timeout set in componentDidMount fires.
TimeoutFires ==
    /\ listener.phase = "mounted"
    /\ listener.requestTimeout
    /\ listener' = [listener EXCEPT !.requestTimeout = FALSE,
                                    !.requestAttempted = IF ~listener.storeAvailable THEN TRUE ELSE @]
    /\ posted' = <<>>
    /\ UNCHANGED <<used, bridgeVars, bridgeInbox, listenerInbox, callVars>>

\* handleAddItemCountChange: a string of digits (or the empty string) is kept.
HandleAddItemCountChange ==
    /\ listener.phase = "mounted"
    /\ Uses("listener", MaxListenerOps)
    /\ listener.storeAvailable
    /\ \E value \in CountTexts :
          /\ value # listener.addItemCount
          /\ listener' = [listener EXCEPT !.addItemCount = value]
    /\ posted' = <<>>
    /\ UNCHANGED <<bridgeVars, bridgeInbox, listenerInbox, callVars>>

\* requestMoreData; its button is rendered only while storeAvailable.
RequestMoreData ==
    /\ listener.phase = "mounted"
    /\ Uses("listener", MaxListenerOps)
    /\ listener.storeAvailable
    /\ LET count == OrOne(ParseInt(listener.addItemCount))
       IN /\ CanRequest(<<AddMsg(count, "App")>>)
          /\ bridgeInbox' = Append(bridgeInbox, AddMsg(count, "App"))
    /\ listener' = [listener EXCEPT !.loading = TRUE]
    /\ posted' = <<>>
    /\ UNCHANGED <<bridgeVars, listenerInbox, callVars>>

\* requestResetData; its button is rendered only while storeAvailable.
RequestResetData ==
    /\ listener.phase = "mounted"
    /\ Uses("listener", MaxListenerOps)
    /\ listener.storeAvailable
    /\ CanRequest(<<RequestMsg(RESET_DATA_EVENT, "App")>>)
    /\ bridgeInbox' = Append(bridgeInbox, RequestMsg(RESET_DATA_EVENT, "App"))
    /\ listener' = [listener EXCEPT !.loading = TRUE]
    /\ posted' = <<>>
    /\ UNCHANGED <<bridgeVars, listenerInbox, callVars>>

\* retryRequestData; its button is rendered while not connected after an attempt.
RetryRequestData ==
    /\ listener.phase = "mounted"
    /\ Uses("listener", MaxListenerOps)
    /\ ~listener.storeAvailable
    /\ listener.requestAttempted
    /\ CanRequest(requestCurrentData)
    /\ bridgeInbox' = bridgeInbox \o requestCurrentData
    /\ listener' = [listener EXCEPT !.requestAttempted = TRUE]
    /\ posted' = <<>>
    /\ UNCHANGED <<bridgeVars, listenerInbox, callVars>>

\* componentWillUnmount: clear the timeout, close the channel.
Unmount ==
    /\ listener.phase = "mounted"
    /\ listener' = [listener EXCEPT !.phase = "unmounted", !.requestTimeout = FALSE]
    /\ listenerInbox' = <<>>
    /\ posted' = <<>>
    /\ UNCHANGED <<used, bridgeVars, bridgeInbox, callVars>>

(***************************************************************************)
(* Another same-origin context (a second tab) posts on 'store-updates':    *)
(* the message reaches the bridge and, if its channel is open, the App.    *)
(***************************************************************************)
PeerCounts == {Undefined, Null, NaN, Num(0), Num(-1), Num(2), Huge}

PeerMsgs ==
    {RequestMsg(t, "peer") : t \in {REQUEST_DATA_EVENT, REQUEST_LOADING_EVENT, RESET_DATA_EVENT,
                            "UNKNOWN", ""}}
    \cup {AddMsg(c, "peer") : c \in PeerCounts}

PeerPosts ==
    /\ Uses("peer", MaxPeerPosts)
    /\ \E msg \in PeerMsgs :
          /\ CanRequest(<<msg>>)
          /\ bridgeInbox' = Append(bridgeInbox, msg)
          /\ IF listener.phase = "mounted"
             THEN /\ Len(listenerInbox) < MaxOutbox
                  /\ listenerInbox' = Append(listenerInbox, msg)
             ELSE UNCHANGED listenerInbox
    /\ posted' = <<>>
    /\ UNCHANGED <<bridgeVars, listener, callVars>>

\* The updates another context posts: a second container's bridge posts
\* DATA_UPDATE with a list and LOADING_UPDATE; any script can post a DATA_UPDATE
\* with no payload or with null.
PeerUpdates ==
    {DataMsg(list, "peer") : list \in {<<>>, <<NewItem(1)>>}}
    \cup {Msg(DATA_EVENT, <<>>, FALSE, c, "peer") : c \in {Undefined, Null}}
    \cup {LoadingMsg(TRUE, "peer")}

PeerPostsUpdate ==
    /\ Uses("peer", MaxPeerPosts)
    /\ \E msg \in PeerUpdates :
          /\ CanRequest(<<msg>>)
          /\ bridgeInbox' = Append(bridgeInbox, msg)
          /\ IF listener.phase = "mounted"
             THEN /\ Len(listenerInbox) < MaxOutbox
                  /\ listenerInbox' = Append(listenerInbox, msg)
             ELSE UNCHANGED listenerInbox
    /\ posted' = <<>>
    /\ UNCHANGED <<bridgeVars, listener, callVars>>

\* The messages of another context that neither side has a branch for.
PeerOthers == {RequestMsg(t, "peer") : t \in {"UNKNOWN", ""}}

PeerPostsOther ==
    /\ Uses("peer", MaxPeerPosts)
    /\ \E msg \in PeerOthers :
          /\ CanRequest(<<msg>>)
          /\ bridgeInbox' = Append(bridgeInbox, msg)
          /\ IF listener.phase = "mounted"
             THEN /\ Len(listenerInbox) < MaxOutbox
                  /\ listenerInbox' = Append(listenerInbox, msg)
             ELSE UNCHANGED listenerInbox
    /\ posted' = <<>>
    /\ UNCHANGED <<bridgeVars, listener, callVars>>

Next ==
    \/ NgOnInit \/ NgOnDestroy
    \/ ComponentAddMoreData \/ ComponentResetData \/ ComponentAddCustomData
    \/ ReloadTimerFires \/ LoadCompletes
    \/ Activate \/ Deactivate
    \/ ReceiveRequestData \/ ReceiveRequestLoading \/ ReceiveAddMoreData
    \/ ReceiveResetData \/ ReceiveOther \/ ResponseTimerFires
    \/ Mount \/ ListenerReceives \/ TimeoutFires \/ HandleAddItemCountChange
    \/ RequestMoreData \/ RequestResetData \/ RetryRequestData \/ Unmount
    \/ PeerPosts \/ PeerPostsUpdate \/ PeerPostsOther

Spec == Init /\ [][Next]_vars

(***************************************************************************)
(* The state space of the whole system (Spec) is the product of its        *)
(* parts'.  A property is checked under the composition of the parts that  *)
(* can change what it reads:                                               *)
(*   SpecActivation  the store, AppComponent and the activation calls;     *)
(*   SpecBridge      the store, AppComponent and the bridge's message      *)
(*                   handlers, fed by another context's posts;             *)
(*   SpecListener    the store, the bridge's message handlers and the      *)
(*                   React App, the only sender;                           *)
(*   SpecSanitize    sanitizeData alone, on any argument.                  *)
(***************************************************************************)
NextActivation ==
    \/ NgOnInit \/ NgOnDestroy
    \/ ComponentAddMoreData \/ ComponentResetData \/ ComponentAddCustomData
    \/ ReloadTimerFires \/ LoadCompletes
    \/ Activate \/ Deactivate

SpecActivation == Init /\ [][NextActivation]_vars

NextBridge ==
    \/ NgOnInit \/ NgOnDestroy
    \/ ComponentAddMoreData \/ ComponentResetData \/ ComponentAddCustomData
    \/ ReloadTimerFires \/ LoadCompletes
    \/ ReceiveRequestData \/ ReceiveRequestLoading \/ ReceiveAddMoreData
    \/ ReceiveResetData \/ ReceiveOther \/ ResponseTimerFires
    \/ PeerPosts

SpecBridge == Init /\ [][NextBridge]_vars

NextListener ==
    \/ NgOnInit \/ NgOnDestroy
    \/ LoadCompletes
    \/ ReceiveRequestData \/ ReceiveRequestLoading \/ ReceiveAddMoreData
    \/ ReceiveResetData \/ ResponseTimerFires
    \/ Mount \/ ListenerReceives \/ TimeoutFires \/ HandleAddItemCountChange
    \/ RequestMoreData \/ RequestResetData \/ RetryRequestData \/ Unmount

SpecListener == Init /\ [][NextListener]_vars

(***************************************************************************)
(* sanitizeData on its own.  Its parameter is typed any: the arguments are *)
(* null, undefined, a non-array value, and the arrays of at most           *)
(* MaxSanitizeLen objects, each object with any of the fields below.       *)
(***************************************************************************)
ObjectFields == ItemFields \cup {"token", "password"}

FieldValue(f) ==
    CASE f = "id" -> <<"number", 1>>
      [] f = "name" -> <<"string", 1>>
      [] f = "description" -> <<"string", 2>>
      [] f = "token" -> <<"string", 3>>
      [] f = "password" -> <<"string", 4>>

Objects == {[f \in fields |-> FieldValue(f)] : fields \in SUBSET ObjectFields}

SanitizeArguments ==
    {[kind |-> k, items |-> <<>>] : k \in {"null", "undefined", "other"}}
    \cup {Arr(items) : items \in UNION {[1..n -> Objects] : n \in 0..MaxSanitizeLen}}

InitSanitize ==
    /\ appState = initialAppState
    /\ loadPending = NoLoad
    /\ sampleData = InitialSampleData
    /\ timers = <<>>
    /\ activeListeners = 0
    /\ dataSubscription = NoDataSubscription
    /\ loadingSubscription = NoLoadingSubscription
    /\ bridgeInbox = <<>>
    /\ listenerInbox = <<>>
    /\ component = "constructed"
    /\ listener = InitialListener
    /\ used = [component |-> 0, listener |-> 0, peer |-> 0]
    /\ calls = <<>>
    /\ posted = <<>>
    /\ sanitizeIn \in SanitizeArguments
    /\ sanitizeOut = NotCalled
    /\ providerCall = NoCall
    /\ providerResult = Returned(<<>>)
    /\ storeAction = NoAction
    /\ leaked = NoLeaks

SanitizeCall ==
    /\ sanitizeOut = NotCalled
    /\ sanitizeOut' = sanitizeData(sanitizeIn)
    /\ UNCHANGED <<bridgeVars, bridgeInbox, listenerVars, used, posted, sanitizeIn,
                   providerCall, providerResult, storeAction, leaked>>

SpecSanitize == InitSanitize /\ [][SanitizeCall]_vars

(***************************************************************************)
(* The current-state requests while broadcasting is activated and          *)
(* deactivated: the store, the activation calls, the bridge's handlers of  *)
(* REQUEST_DATA and REQUEST_LOADING, and a React App that is mounted,      *)
(* retries while it has no answer.                                         *)
(***************************************************************************)
NextRequests ==
    \/ NgOnInit \/ LoadCompletes
    \/ Activate \/ Deactivate
    \/ ReceiveRequestData \/ ReceiveRequestLoading
    \/ Mount \/ ListenerReceives \/ RetryRequestData

SpecRequests == Init /\ [][NextRequests]_vars

(***************************************************************************)
(* The React App receiving updates from the bridge and from another        *)
(* context: the store's load, the bridge's handlers of the App's requests  *)
(* for the current state, the App, and the other context's updates.        *)
(***************************************************************************)
NextUpdates ==
    \/ NgOnInit \/ LoadCompletes
    \/ ReceiveRequestData \/ ReceiveRequestLoading \/ ReceiveOther
    \/ Mount \/ ListenerReceives \/ TimeoutFires \/ RetryRequestData \/ Unmount
    \/ PeerPostsUpdate

SpecUpdates == Init /\ [][NextUpdates]_vars

(***************************************************************************)
(* Messages neither side has a branch for: the bridge's handlers and the   *)
(* React App, both fed by another context's requests, updates and untyped  *)
(* messages.                                                               *)
(***************************************************************************)
NextIgnored ==
    \/ ReceiveRequestData \/ ReceiveRequestLoading \/ ReceiveAddMoreData
    \/ ReceiveResetData \/ ReceiveOther \/ ResponseTimerFires
    \/ Mount \/ ListenerReceives
    \/ PeerPosts \/ PeerPostsUpdate

SpecIgnored == Init /\ [][NextIgnored]_vars

(***************************************************************************)
(* Everything of the bridge that runs beside the store: the store's first  *)
(* load, the activation calls, and the bridge's message handlers fed by    *)
(* another context's requests and untyped messages.                        *)
(***************************************************************************)
NextReaders ==
    \/ NgOnInit \/ LoadCompletes
    \/ Activate \/ Deactivate
    \/ ReceiveRequestData \/ ReceiveRequestLoading \/ ReceiveAddMoreData
    \/ ReceiveResetData \/ ReceiveOther \/ ResponseTimerFires
    \/ PeerPosts

SpecReaders == Init /\ [][NextReaders]_vars

(***************************************************************************)
(* The store's loads: AppComponent's ngOnInit and its three controls, each *)
(* of which dispatches loadApp 500 ms after its DataService call, and the  *)
(* load effect, whose getSampleData delivers after 1000 ms, beside the     *)
(* activation calls.  A delay that has started ends: the two timers are    *)
(* weakly fair.                                                            *)
(***************************************************************************)
NextLoads ==
    \/ NgOnInit \/ NgOnDestroy
    \/ ComponentAddMoreData \/ ComponentResetData \/ ComponentAddCustomData
    \/ ReloadTimerFires \/ LoadCompletes
    \/ Activate \/ Deactivate

SpecLoads ==
    Init /\ [][NextLoads]_vars /\ WF_vars(ReloadTimerFires) /\ WF_vars(LoadCompletes)

(***************************************************************************)
(* The React App's connection: the App with its timeout and its requests,  *)
(* the bridge's message handlers, and another context posting messages of  *)
(* no known type, while the container comes and goes.                      *)
(***************************************************************************)
NextConnection ==
    \/ NgOnInit \/ NgOnDestroy
    \/ ReceiveRequestData \/ ReceiveRequestLoading \/ ReceiveAddMoreData
    \/ ReceiveResetData \/ ReceiveOther \/ ResponseTimerFires
    \/ Mount \/ ListenerReceives \/ TimeoutFires
    \/ RequestMoreData \/ RequestResetData \/ RetryRequestData
    \/ PeerPostsOther

SpecConnection == Init /\ [][NextConnection]_vars

(***************************************************************************)
(* DataService on its own: its four public methods called in any order,    *)
(* addMoreData with any of ProviderCounts.                                 *)
(***************************************************************************)
ProviderCounts == {Undefined, Null, Num(0), Num(1), Num(3), Huge}

restOfApp == <<appState, loadPending, timers, activeListeners, subscriptions, bridgeInbox,
               listenerVars, component, used, calls, posted, sanitizeVars, storeAction, leaked>>

CallGetSampleData ==
    /\ providerCall' = Call("getSampleData", Undefined, <<>>, sampleData)
    /\ providerResult' = Returned(getSampleData(sampleData))
    /\ UNCHANGED <<sampleData, restOfApp>>

CallAddMoreData ==
    /\ \E count \in ProviderCounts :
          /\ providerCall' = Call("addMoreData", count, <<>>, sampleData)
          /\ IF ArrayFromThrows(CountOrDefault(count))
             THEN /\ providerResult' = Threw
                  /\ UNCHANGED sampleData
             ELSE /\ Len(addMoreData(sampleData, count)) <= MaxItems
                  /\ sampleData' = addMoreData(sampleData, count)
                  /\ providerResult' = Returned(addMoreData(sampleData, count))
    /\ UNCHANGED restOfApp

CallAddCustomItem ==
    /\ Len(sampleData) < MaxItems
    /\ \E item \in CustomItems :
          /\ providerCall' = Call("addCustomItem", Undefined, item, sampleData)
          /\ sampleData' = addCustomItem(sampleData, item)
          /\ providerResult' = Returned(addCustomItem(sampleData, item))
    /\ UNCHANGED restOfApp

CallResetData ==
    /\ providerCall' = Call("resetData", Undefined, <<>>, sampleData)
    /\ sampleData' = resetData
    /\ providerResult' = Returned(resetData)
    /\ UNCHANGED restOfApp

NextProvider == CallGetSampleData \/ CallAddMoreData \/ CallAddCustomItem \/ CallResetData

SpecProvider == Init /\ [][NextProvider]_vars

(***************************************************************************)
(* appReducer on its own: any sequence of the three actions, loadAppSuccess *)
(* with any of LoadedLists and loadAppFailure with any of ErrorMessages.   *)
(***************************************************************************)
LoadedLists ==
    {<<>>, InitialSampleData, addMoreData(InitialSampleData, Num(1)),
     addCustomItem(InitialSampleData, CHOOSE item \in CustomItems : TRUE)}

ErrorMessages == {"timeout", "offline"}

restOfStore == <<loadPending, providerVars, activeListeners, subscriptions, bridgeInbox,
                 listenerVars, component, used, calls, posted, sanitizeVars, providerCall,
                 providerResult, leaked>>

ReduceLoadApp ==
    /\ storeAction' = Action("loadApp", <<>>, "null", appState)
    /\ appState' = OnLoadApp(appState)
    /\ UNCHANGED restOfStore

ReduceLoadAppSuccess ==
    /\ \E data \in LoadedLists :
          /\ storeAction' = Action("loadAppSuccess", data, "null", appState)
          /\ appState' = OnLoadAppSuccess(appState, data)
    /\ UNCHANGED restOfStore

ReduceLoadAppFailure ==
    /\ \E error \in ErrorMessages :
          /\ storeAction' = Action("loadAppFailure", <<>>, error, appState)
          /\ appState' = OnLoadAppFailure(appState, error)
    /\ UNCHANGED restOfStore

NextReducer == ReduceLoadApp \/ ReduceLoadAppSuccess \/ ReduceLoadAppFailure

SpecReducer == Init /\ [][NextReducer]_vars

(***************************************************************************)
(* Properties.                                                             *)
(***************************************************************************)
Live == dataSubscription.live /\ loadingSubscription.live

Posts(msgs, msg) == \E i \in DOMAIN msgs : msgs[i] = msg

\* The step in which a delay(500) callback of `handler` runs.
RespondsFor(handler) ==
    /\ timers # <<>>
    /\ Head(timers).kind = "respond"
    /\ Head(timers).handler = handler
    /\ timers' = Tail(timers)

\* C1: for every REQUEST_DATA message the bridge handles, in any store state, it
\* posts exactly one message, a DATA_UPDATE whose payload is the store's item
\* list at that moment.
C1_RequestDataOneUpdate ==
    [][Receives(REQUEST_DATA_EVENT) =>
          /\ Len(posted') = 1
          /\ posted'[1].type = DATA_EVENT
          /\ posted'[1].list = appState.data
          /\ appState' = appState]_vars

C1_Witness ==
    /\ posted # <<>>
    /\ posted[1].by = "sendCurrentData"
    /\ Len(posted[1].list) > BaselineCount

C3_CountNeverNegative ==
    [][/\ activeListeners' >= 0
       /\ (calls' = Append(calls, "deactivate") /\ activeListeners = 0) => activeListeners' = 0]_vars

C3_Witness == calls = <<"deactivate">> /\ activeListeners = 0

\* C4, as claimed: forwarding is active if and only if the activation count is
\* greater than 0.
C4_ForwardingIffCount == Live <=> activeListeners > 0

\* C4, amended: the two subscriptions are live together; before ngOnInit they are
\* live iff the count is above 0, and between ngOnInit and ngOnDestroy they are
\* live whenever the count is above 0 (and may be live at count 0); a store change
\* posts nothing while they are not live, and every change of the item list or of
\* the loading flag is posted while they are.
C4_ForwardingWhileSubscribed ==
    [][/\ dataSubscription'.live = loadingSubscription'.live
       /\ component' = "constructed" => (dataSubscription'.live <=> activeListeners' > 0)
       /\ component' = "initialized" => (activeListeners' > 0 => dataSubscription'.live)
       /\ (appState' # appState /\ calls' = calls) =>
             /\ ~Live => posted' = <<>>
             /\ (Live /\ appState'.data # appState.data) =>
                   Posts(posted', DataMsg(appState'.data, "dataSubscription"))
             /\ (Live /\ appState'.loading # appState.loading) =>
                   Posts(posted', LoadingMsg(appState'.loading, "loadingSubscription"))]_vars

C4_Witness ==
    /\ activeListeners = 0
    /\ component = "initialized"
    /\ appState.isLoaded
    /\ posted # <<>>
    /\ posted[1] = DataMsg(appState.data, "dataSubscription")

ThreeActivations == <<"activate", "activate", "activate">>

\* C5: from count 0, activate() three times and deactivate() twice leaves the
\* broadcast active; after four deactivate() calls it is stopped and the count is 0.
C5_ActivationScenario ==
    /\ calls = ThreeActivations \o <<"deactivate", "deactivate">> =>
          Live /\ activeListeners > 0
    /\ calls = ThreeActivations \o <<"deactivate", "deactivate", "deactivate", "deactivate">> =>
          ~dataSubscription.live /\ ~loadingSubscription.live /\ activeListeners = 0

C5_Witness ==
    calls = ThreeActivations \o <<"deactivate", "deactivate", "deactivate", "deactivate">>

\* C6: activate() starts the broadcast only on the 0 to 1 transition of the
\* count; called at a count of 1 or more it only increments the count, leaves the
\* subscriptions as they are and posts nothing.
C6_ActivateStartsOnFirstOnly ==
    [][calls' = Append(calls, "activate") =>
          IF activeListeners = 0
          THEN /\ activeListeners' = 1
               /\ dataSubscription'.live /\ loadingSubscription'.live
               /\ Len(posted') = 2
          ELSE /\ activeListeners' = activeListeners + 1
               /\ UNCHANGED subscriptions
               /\ posted' = <<>>]_vars

C6_Witness ==
    /\ Len(calls) >= 2
    /\ calls[Len(calls)] = "activate"
    /\ activeListeners = 2
    /\ Live
    /\ dataSubscription.last # <<>>

\* C7: an ADD_MORE_DATA request whose DataService call succeeds sets one
\* callback holding the provider's updated list (the previous items, then the new
\* ones), and that callback posts exactly a DATA_UPDATE with that list followed by
\* a LOADING_UPDATE(false).
C7_AddMoreDataAnswer ==
    [][/\ (/\ Receives(ADD_MORE_DATA_EVENT)
           /\ ~ArrayFromThrows(CountOrDefault(Head(bridgeInbox).count))) =>
             /\ posted' = <<>>
             /\ Len(sampleData') >= Len(sampleData)
             /\ SubSeq(sampleData', 1, Len(sampleData)) = sampleData
             /\ timers' = Append(timers, Respond(sampleData', "handleAddMoreData"))
       /\ RespondsFor("handleAddMoreData") =>
             posted' = <<DataMsg(Head(timers).data, "handleAddMoreData"),
                         LoadingMsg(FALSE, "handleAddMoreData")>>]_vars

C7_Witness ==
    /\ Len(posted) = 2
    /\ posted[1].by = "handleAddMoreData"
    /\ posted[1].type = DATA_EVENT
    /\ Len(posted[1].list) > BaselineCount

InvalidCount(count) == count.k \in {"null", "NaN"} \/ (count.k = "int" /\ count.n <= 0)

\* C8, as claimed: ADD_MORE_DATA with an absent or invalid count (missing, null,
\* not a number, zero or negative) appends exactly 5 items.
C8_InvalidCountAppendsFive ==
    [][(/\ Receives(ADD_MORE_DATA_EVENT)
        /\ (Head(bridgeInbox).count.k = "undefined" \/ InvalidCount(Head(bridgeInbox).count))) =>
          Len(sampleData') = Len(sampleData) + DefaultCount]_vars

\* C8, amended: ADD_MORE_DATA with no count appends exactly 5 items; with a
\* count of null, NaN, zero or a negative number it appends none, and still sets
\* the callback that answers with the unchanged list.
C8_AbsentCountAppendsFive ==
    [][Receives(ADD_MORE_DATA_EVENT) =>
          /\ Head(bridgeInbox).count.k = "undefined" =>
                sampleData' = sampleData \o
                    [i \in 1..DefaultCount |-> NewItem(Len(sampleData) + i)]
          /\ InvalidCount(Head(bridgeInbox).count) =>
                /\ sampleData' = sampleData
                /\ timers' = Append(timers, Respond(sampleData, "handleAddMoreData"))]_vars

C8_Witness ==
    /\ used.component = 0
    /\ Len(timers) = 2
    /\ \A i \in DOMAIN timers : timers[i].handler = "handleAddMoreData"
    /\ Len(sampleData) = BaselineCount + DefaultCount

\* C9: when the DataService call made for an ADD_MORE_DATA request fails, the
\* bridge posts exactly one LOADING_UPDATE(false) and nothing else, and the store
\* is unchanged.
C9_FailureClearsLoading ==
    [][(/\ Receives(ADD_MORE_DATA_EVENT)
        /\ ArrayFromThrows(CountOrDefault(Head(bridgeInbox).count))) =>
          /\ Len(posted') = 1
          /\ posted'[1].type = LOADING_EVENT
          /\ posted'[1].flag = FALSE
          /\ appState' = appState]_vars

\* C10: the callback of a RESET_DATA request posts one DATA_UPDATE whose payload
\* is exactly the baseline (ids 1 to 7 with their names and descriptions), then
\* one LOADING_UPDATE(false); when the React App has received both, its list is
\* that baseline.
C10_ResetAnswersBaseline ==
    [][/\ RespondsFor("handleResetData") =>
             posted' = <<DataMsg(InitialSampleData, "handleResetData"),
                         LoadingMsg(FALSE, "handleResetData")>>
       /\ (/\ listener.phase = "mounted"
           /\ listenerInbox # <<>>
           /\ Head(listenerInbox) = LoadingMsg(FALSE, "handleResetData")
           /\ listenerInbox' = Tail(listenerInbox)
           /\ listener'.phase = "mounted") =>
             listener'.data = InitialSampleData /\ listener'.loading = FALSE]_vars

C10_Witness ==
    /\ listenerInbox # <<>>
    /\ Head(listenerInbox) = DataMsg(InitialSampleData, "handleResetData")
    /\ Len(listener.data) > BaselineCount

\* A store action other than the one ngOnInit dispatches: the loadApp of a
\* delay(500) callback, or the load effect's loadAppSuccess.
StoreAction ==
    /\ calls' = calls
    /\ \/ timers # <<>> /\ Head(timers).kind = "reload" /\ timers' = Tail(timers)
       \/ loadPending.pending /\ ~loadPending'.pending

PostsType(msgs, type) == \E i \in DOMAIN msgs : msgs[i].type = type

\* C11: a store action that leaves the item list as it was posts no DATA_UPDATE,
\* and one that leaves the loading flag as it was posts no LOADING_UPDATE.  (What
\* a new subscription emits when startBroadcastingStoreUpdates runs is not a
\* change notification.)
C11_UnchangedValueNotPosted ==
    [][StoreAction =>
          /\ appState'.data = appState.data => ~PostsType(posted', DATA_EVENT)
          /\ appState'.loading = appState.loading => ~PostsType(posted', LOADING_EVENT)]_vars

C11_Witness ==
    /\ Live
    /\ appState.isLoaded
    /\ appState.data # <<>>
    /\ posted = <<LoadingMsg(FALSE, "loadingSubscription")>>

\* C12: for every REQUEST_LOADING message the bridge handles it posts exactly one
\* message, a LOADING_UPDATE carrying the store's loading flag of that moment,
\* whatever the activation count is, and changes neither the store nor the count.
C12_RequestLoadingOneUpdate ==
    [][Receives(REQUEST_LOADING_EVENT) =>
          /\ Len(posted') = 1
          /\ posted'[1].type = LOADING_EVENT
          /\ posted'[1].flag = appState.loading
          /\ appState' = appState
          /\ activeListeners' = activeListeners]_vars

C12_Witness ==
    /\ posted = <<LoadingMsg(TRUE, "sendCurrentLoadingState")>>
    /\ activeListeners = 0
    /\ ~dataSubscription.live

\* The greatest id of a list (0 for the empty list).
MaxId(data) ==
    IF data = <<>> THEN 0
    ELSE CHOOSE m \in {data[i].id : i \in DOMAIN data} : \A i \in DOMAIN data : data[i].id <= m

Synthesized(newId) ==
    [id |-> newId, name |-> <<"Item", newId>>, description |-> <<"Description for item", newId>>]

C14_ResetDataYieldsBaseline ==
    providerCall.op = "resetData" =>
        /\ sampleData = [i \in 1..7 |-> Synthesized(i)]
        /\ providerResult = Returned(sampleData)
        /\ providerCall.before = resetData => sampleData = providerCall.before

C14_Witness ==
    /\ providerCall.op = "resetData"
    /\ Len(providerCall.before) > BaselineCount
    /\ sampleData = InitialSampleData

\* C15, as claimed: getSampleData() returns the seven baseline items whenever it
\* is called, and leaves the list as it was.
C15_GetSampleDataReturnsBaseline ==
    providerCall.op = "getSampleData" =>
        /\ providerResult = Returned(InitialSampleData)
        /\ sampleData = providerCall.before

\* C15, amended: getSampleData() returns the list DataService holds when it is
\* called (the baseline only if nothing was added since construction or the last
\* resetData()), and leaves the list as it was.
C15_GetSampleDataReturnsCurrent ==
    providerCall.op = "getSampleData" =>
        /\ providerResult = Returned(providerCall.before)
        /\ sampleData = providerCall.before

C15_Witness ==
    /\ providerCall.op = "getSampleData"
    /\ ~providerResult.threw
    /\ Len(providerResult.data) > BaselineCount

\* C16: addCustomItem(item) appends exactly one item, with the given name and
\* description and the id max + 1, leaves the previous items as they were, and
\* returns the whole list.
C16_AddCustomItemAppendsOne ==
    providerCall.op = "addCustomItem" =>
        /\ sampleData = Append(providerCall.before,
                               [id |-> MaxId(providerCall.before) + 1,
                                name |-> providerCall.item.name,
                                description |-> providerCall.item.description])
        /\ providerResult = Returned(sampleData)

C16_Witness ==
    /\ providerCall.op = "addCustomItem"
    /\ Len(providerCall.before) > BaselineCount
    /\ sampleData[Len(sampleData)].name = providerCall.item.name

\* C17: in every state of DataService the ids of its list are strictly increasing
\* in list order, so no two items share an id.
C17_IdsStrictlyIncreasing ==
    \A i, j \in DOMAIN sampleData : i < j => sampleData[i].id < sampleData[j].id

C17_Witness ==
    /\ Len(sampleData) = MaxItems
    /\ providerCall.op = "addCustomItem"
    /\ \E i \in DOMAIN providerCall.before : providerCall.before[i].name \in {c.name : c \in CustomItems}

\* The steps of the React App: componentDidMount, the timeout's callback,
\* onmessage, and an action of its user.
MountStep == listener.phase = "none" /\ listener'.phase = "mounted"

TimeoutStep ==
    listener.phase = "mounted" /\ listener.requestTimeout /\ ~listener'.requestTimeout
    /\ listener'.phase = "mounted"

ReceiveStep ==
    /\ listener.phase = "mounted" /\ listener'.phase = "mounted"
    /\ listenerInbox # <<>>
    /\ listenerInbox' = Tail(listenerInbox)

UserStep == used'.listener = used.listener + 1

\* What the step put on the channel for the bridge.
Sent ==
    IF Len(bridgeInbox') > Len(bridgeInbox)
    THEN SubSeq(bridgeInbox', Len(bridgeInbox) + 1, Len(bridgeInbox'))
    ELSE <<>>

\* C18: componentDidMount sends REQUEST_DATA, then REQUEST_LOADING, and sets the
\* timeout with the connection marked unavailable; the timeout firing leaves the
\* connection mark, the list and the queued messages as they are and the App
\* listening; a DATA_UPDATE received after the timeout has fired still replaces
\* the list and marks the connection available.
C18_TimeoutAbortsNothing ==
    [][/\ MountStep =>
             /\ Sent = <<RequestMsg(REQUEST_DATA_EVENT, "App"),
                         RequestMsg(REQUEST_LOADING_EVENT, "App")>>
             /\ listener'.requestTimeout
             /\ ~listener'.storeAvailable
       /\ TimeoutStep =>
             /\ listener'.storeAvailable = listener.storeAvailable
             /\ listener'.data = listener.data
             /\ listenerInbox' = listenerInbox
             /\ Sent = <<>>
       /\ (ReceiveStep /\ ~listener.requestTimeout /\ Head(listenerInbox).type = DATA_EVENT) =>
             /\ listener'.data = Head(listenerInbox).list
             /\ listener'.storeAvailable]_vars

C18_Witness ==
    /\ listener.phase = "mounted"
    /\ ~listener.requestTimeout
    /\ ~listener.storeAvailable
    /\ listenerInbox # <<>>
    /\ Head(listenerInbox).type = DATA_EVENT
    /\ Head(listenerInbox).list # <<>>

\* C19: the React App sends REQUEST_DATA or REQUEST_LOADING only in
\* componentDidMount and in a retry its user asks for, one REQUEST_DATA and one
\* REQUEST_LOADING each time; the timeout firing and a received message send
\* nothing.
C19_NoAutomaticRetry ==
    [][/\ (PostsType(Sent, REQUEST_DATA_EVENT) \/ PostsType(Sent, REQUEST_LOADING_EVENT)) =>
             /\ MountStep \/ (UserStep /\ ~listener.storeAvailable)
             /\ Sent = <<RequestMsg(REQUEST_DATA_EVENT, "App"),
                         RequestMsg(REQUEST_LOADING_EVENT, "App")>>
       /\ (TimeoutStep \/ ReceiveStep) => Sent = <<>>]_vars

C19_Witness ==
    /\ used.listener = 1
    /\ ~listener.storeAvailable
    /\ ~listener.requestTimeout
    /\ listener.phase = "mounted"
    /\ Len(bridgeInbox) = 2
    /\ bridgeInbox[1].type = REQUEST_DATA_EVENT

\* C20: the React App's list is empty until it is mounted; receiving a
\* DATA_UPDATE replaces the list with the message's payload, or with the empty
\* list when the message has no payload, and marks the connection available; no
\* other step changes the list.  So the list is always the payload of the last
\* DATA_UPDATE received, or empty if none was.
C20_ListIsLastDataUpdate ==
    [][/\ listener.phase = "none" => listener.data = <<>>
       /\ IF ReceiveStep /\ Head(listenerInbox).type = DATA_EVENT
          THEN /\ listener'.data = IF Head(listenerInbox).count \in {Undefined, Null}
                                   THEN <<>> ELSE Head(listenerInbox).list
               /\ listener'.storeAvailable
          ELSE listener'.data = listener.data]_vars

C20_Witness ==
    /\ listener.phase = "mounted"
    /\ listener.data # <<>>
    /\ listenerInbox # <<>>
    /\ Head(listenerInbox) = Msg(DATA_EVENT, <<>>, FALSE, Undefined, "peer")

\* C21: receiving a LOADING_UPDATE replaces the React App's loading flag with the
\* payload and changes nothing else of its state: not the list, not the
\* connection mark.
C21_LoadingUpdateSetsFlagOnly ==
    [][(ReceiveStep /\ Head(listenerInbox).type = LOADING_EVENT) =>
          /\ listener'.loading = Head(listenerInbox).flag
          /\ \A f \in DOMAIN listener \ {"loading"} : listener'[f] = listener[f]]_vars

C21_Witness ==
    /\ listener.phase = "mounted"
    /\ listener.loading
    /\ listener.storeAvailable
    /\ listener.data # <<>>
    /\ listenerInbox = <<>>

\* The step in which the bridge's onmessage takes a message.
BridgeReceiveStep == bridgeInbox # <<>> /\ bridgeInbox' = Tail(bridgeInbox)

\* C22: a message with no type, or of a type the receiver has no branch for, is
\* ignored.  The React App's state is unchanged by any message that is neither a
\* DATA_UPDATE nor a LOADING_UPDATE (requests of another context included); for
\* any message that is not one of the four requests (DATA_UPDATE and
\* LOADING_UPDATE included) the bridge posts nothing, calls DataService for
\* nothing and changes no state.
C22_OtherMessagesIgnored ==
    [][/\ (ReceiveStep /\ Head(listenerInbox).type \notin {DATA_EVENT, LOADING_EVENT}) =>
             listener' = listener
       /\ (BridgeReceiveStep
           /\ Head(bridgeInbox).type \notin {REQUEST_DATA_EVENT, REQUEST_LOADING_EVENT,
                                             ADD_MORE_DATA_EVENT, RESET_DATA_EVENT}) =>
             /\ posted' = <<>>
             /\ UNCHANGED <<appState, loadPending, sampleData, timers, activeListeners,
                            dataSubscription, loadingSubscription, listenerInbox>>]_vars

C22_Witness ==
    /\ listener.phase = "mounted"
    /\ listenerInbox # <<>>
    /\ Head(listenerInbox).type = REQUEST_DATA_EVENT
    /\ bridgeInbox # <<>>
    /\ Head(bridgeInbox).type = DATA_EVENT

\* C23: componentWillUnmount clears the timeout and closes the channel, dropping
\* what was queued for the React App, and recalls nothing: the messages it sent
\* stay queued for the bridge and the callbacks already set stay set.  From then
\* on no step changes the App's state and nothing is queued for it.
C23_UnmountedListenerInert ==
    [][/\ (listener.phase = "mounted" /\ listener'.phase = "unmounted") =>
             /\ ~listener'.requestTimeout
             /\ listenerInbox' = <<>>
             /\ bridgeInbox' = bridgeInbox
             /\ timers' = timers
       /\ listener.phase = "unmounted" =>
             /\ listener' = listener
             /\ listenerInbox' = <<>>]_vars

C23_Witness ==
    /\ listener.phase = "unmounted"
    /\ posted # <<>>
    /\ posted[1].by = "sendCurrentData"
    /\ bridgeInbox # <<>>
    /\ Head(bridgeInbox).by = "App"

\* The baseline followed by the three items an ADD_MORE_DATA of 3 appends to it.
TenItems == [i \in 1..10 |-> Synthesized(i)]

\* C24: with the seven baseline items, when the React App sends ADD_MORE_DATA
\* with payload 3 its loading flag is true at once; the bridge's handler sets one
\* callback holding the ten items with ids 1 to 10; the callback posts a
\* DATA_UPDATE with them and then a LOADING_UPDATE(false), queued for the App in
\* that order; and when the App, having asked for nothing else, has received
\* both, its list is those ten items and its loading flag is false.
C24_AddThreeScenario ==
    [][/\ (UserStep /\ Sent = <<AddMsg(Num(3), "App")>>) => listener'.loading
       /\ (/\ BridgeReceiveStep
           /\ Head(bridgeInbox) = AddMsg(Num(3), "App")
           /\ sampleData = InitialSampleData) =>
             /\ timers' = Append(timers, Respond(TenItems, "handleAddMoreData"))
             /\ posted' = <<>>
       /\ (RespondsFor("handleAddMoreData") /\ Head(timers).data = TenItems) =>
             /\ posted' = <<DataMsg(TenItems, "handleAddMoreData"),
                            LoadingMsg(FALSE, "handleAddMoreData")>>
             /\ listener.phase = "mounted" => listenerInbox' = listenerInbox \o posted'
       /\ (ReceiveStep /\ Head(listenerInbox) = DataMsg(TenItems, "handleAddMoreData")) =>
             /\ listener'.data = TenItems
             /\ Len(listenerInbox) >= 2
             /\ listenerInbox[2] = LoadingMsg(FALSE, "handleAddMoreData")
       /\ (/\ ReceiveStep
           /\ Head(listenerInbox) = LoadingMsg(FALSE, "handleAddMoreData")
           /\ used.listener = 1) =>
             /\ listener'.data = TenItems
             /\ ~listener'.loading]_vars

C24_Witness ==
    /\ listener.phase = "mounted"
    /\ used.listener = 1
    /\ listener.data = TenItems
    /\ ~listener.loading
    /\ listenerInbox = <<>>
    /\ timers = <<>>
    /\ sampleData = TenItems

\* C25: the store's state starts with no items, isLoaded false, loading false and
\* no error; loadApp sets loading and clears the error; loadAppSuccess sets
\* isLoaded, clears loading and replaces the list with the loaded data;
\* loadAppFailure clears loading and sets the error, leaving the list and isLoaded
\* as they were.  Each leaves every other field as it was.
C25_StoreLifecycle ==
    /\ initialAppState = [isLoaded |-> FALSE, loading |-> FALSE, error |-> "null", data |-> <<>>]
    /\ storeAction.type = "none" => appState = initialAppState
    /\ storeAction.type = "loadApp" =>
          appState = [storeAction.before EXCEPT !.loading = TRUE, !.error = "null"]
    /\ storeAction.type = "loadAppSuccess" =>
          appState = [storeAction.before EXCEPT !.isLoaded = TRUE, !.loading = FALSE,
                                                !.data = storeAction.data]
    /\ storeAction.type = "loadAppFailure" =>
          appState = [storeAction.before EXCEPT !.loading = FALSE, !.error = storeAction.error]

C25_Witness ==
    /\ storeAction.type = "loadAppFailure"
    /\ storeAction.before.loading
    /\ storeAction.before.isLoaded
    /\ appState.data # <<>>
    /\ appState.error = "timeout"

\* A call of activateBroadcasting or deactivateBroadcasting.
ActivationStep ==
    calls' = Append(calls, "activate") \/ calls' = Append(calls, "deactivate")

\* A delay(500) of the bridge's handlers ends and its next callback runs.
BridgeResponseStep ==
    timers # <<>> /\ Head(timers).kind = "respond" /\ timers' = Tail(timers)

Quiescent ==
    /\ bridgeInbox = <<>>
    /\ listenerInbox = <<>>
    /\ timers = <<>>
    /\ ~loadPending.pending

\* C27: every ADD_MORE_DATA or RESET_DATA request of the React App that the
\* bridge handles leads to a store mutation.  Once the store has loaded, the
\* requests have completed and nothing is in flight, the store's list is
\* DataService's list, and the list the connected App holds is the store's.
C27_RequestsMutateStore ==
    (Quiescent /\ component = "initialized" /\ appState.isLoaded) =>
        /\ appState.data = sampleData
        /\ (listener.phase = "mounted" /\ listener.storeAvailable) =>
               listener.data = appState.data

\* C28: every failure path degrades to a disconnected or a not-loading state.
\* While the container is up, once nothing is in flight (every request has had
\* the answer it gets, a failed DataService call included) the mounted React
\* App is not left with its connection available and its loading flag true.
C28_FailuresDegrade ==
    (Quiescent /\ component = "initialized" /\ listener.phase = "mounted") =>
        ~(listener.storeAvailable /\ listener.loading)

\* C29: all data the React App displays comes from the container's store.  Its
\* list is empty or a list the store has held: with AppComponent's one load and
\* no other dispatch, the store has held the empty list and, once loaded, its
\* current list.
C29_ListenerDataFromStore ==
    \/ listener.data = <<>>
    \/ appState.isLoaded /\ listener.data = appState.data

\* store.dispatch(loadApp()): in ngOnInit, or when a delay(500) of one of
\* AppComponent's controls ends.
DispatchStep ==
    \/ calls' = Append(calls, "ngOnInit")
    \/ timers # <<>> /\ Head(timers).kind = "reload" /\ timers' = Tail(timers)

\* C30: overlapping loads.  A loadApp dispatched while a load is pending
\* replaces it: the pending load becomes the one over DataService's list as the
\* dispatch finds it, and the earlier one reaches the store neither as a success
\* nor as a failure (the list, isLoaded and the error are as they were).  The
\* list changes only when the pending load delivers, to that load's snapshot
\* and with loading false.  The loading flag is true exactly while a load is
\* pending, and it eventually is false for good.
C30_OverlappingLoads ==
    /\ [](appState.loading <=> loadPending.pending)
    /\ [][/\ DispatchStep =>
               /\ loadPending' = [pending |-> TRUE, data |-> sampleData]
               /\ appState' = [appState EXCEPT !.loading = TRUE]
          /\ (loadPending' # loadPending /\ ~DispatchStep) =>
               /\ loadPending.pending
               /\ ~loadPending'.pending
               /\ appState' = [appState EXCEPT !.isLoaded = TRUE, !.loading = FALSE,
                                               !.data = loadPending.data]
          /\ appState' # appState => loadPending' # loadPending]_vars
    /\ <>[](~appState.loading)

\* A load was dispatched while ngOnInit's was pending: the store has never
\* loaded, and the pending load is over a list one of the controls changed.
C30_Witness ==
    /\ ~appState.isLoaded
    /\ appState.loading
    /\ loadPending.pending
    /\ loadPending.data # InitialSampleData
    /\ timers = <<>>

\* How many of the messages are of the type.
RECURSIVE CountType(_, _)
CountType(msgs, type) ==
    IF msgs = <<>> THEN 0
    ELSE (IF Head(msgs).type = type THEN 1 ELSE 0) + CountType(Tail(msgs), type)

\* A subscription held by a field counts as one if it is live.
LiveCount(sub) == IF sub.live THEN 1 ELSE 0

\* C31: however startBroadcastingStoreUpdates (ngOnInit), activateBroadcasting,
\* stopBroadcastingStoreUpdates (ngOnDestroy) and deactivateBroadcasting are
\* called, at most one subscription to the item list and at most one to the
\* loading flag are live, and a change of the store made by a step that starts
\* nothing posts at most one DATA_UPDATE and at most one LOADING_UPDATE.
C31_OneSubscriptionEach ==
    [][/\ LiveCount(dataSubscription') + Len(leaked'.data) <= 1
       /\ LiveCount(loadingSubscription') + Len(leaked'.loading) <= 1
       /\ (appState' # appState /\ calls' = calls) =>
             /\ CountType(posted', DATA_EVENT) <= 1
             /\ CountType(posted', LOADING_EVENT) <= 1]_vars

\* Broadcasting was started twice without a stop between (activate, then
\* ngOnInit), and the load's success has then been posted by the subscriptions.
C31_Witness ==
    /\ Len(calls) >= 2
    /\ calls[1] = "activate"
    /\ calls[2] = "ngOnInit"
    /\ \A i \in DOMAIN calls : calls[i] \notin {"deactivate", "ngOnDestroy"}
    /\ appState.isLoaded
    /\ CountType(posted, DATA_EVENT) = 1
    /\ CountType(posted, LOADING_EVENT) = 1

\* A step that starts broadcasting: ngOnInit, or activateBroadcasting at count 0.
StartStep ==
    \/ calls' = Append(calls, "ngOnInit")
    \/ calls' = Append(calls, "activate") /\ activeListeners = 0

\* C32: each start of broadcasting posts at once one DATA_UPDATE with the
\* store's current list and then one LOADING_UPDATE with its current loading
\* flag, whatever was posted before an earlier stop.  They are the last two
\* messages of the step and its only DATA_UPDATE; activateBroadcasting posts
\* nothing else, and ngOnInit at most the LOADING_UPDATE of its own dispatch
\* before them.
C32_StartEmitsCurrentState ==
    [][StartStep =>
         LET n == Len(posted')
         IN /\ n >= 2
            /\ posted'[n - 1] = DataMsg(appState'.data, "dataSubscription")
            /\ posted'[n] = LoadingMsg(appState'.loading, "loadingSubscription")
            /\ CountType(posted', DATA_EVENT) = 1
            /\ calls' = Append(calls, "activate") => n = 2
            /\ n <= 3
            /\ dataSubscription'.live /\ loadingSubscription'.live]_vars

\* Broadcasting is started a second time after a stop, the store as it was at
\* the first start: the same two values have just been posted again.
C32_Witness ==
    /\ Len(calls) = 3
    /\ calls[1] = "activate"
    /\ calls[2] = "deactivate"
    /\ calls[3] = "activate"
    /\ appState = initialAppState
    /\ posted = <<DataMsg(<<>>, "dataSubscription"), LoadingMsg(FALSE, "loadingSubscription")>>

\* C33: the React App's storeAvailable is monotone while it is mounted.  Once
\* true, no step that leaves the App mounted (the timeout, a LOADING_UPDATE, a
\* message of another type, a request or a retry of the App, ngOnDestroy of the
\* container) makes it false.
C33_StoreAvailableMonotone ==
    [][(listener.phase = "mounted" /\ listener'.phase = "mounted"
        /\ listener.storeAvailable) => listener'.storeAvailable]_vars

\* Connected, the App has since seen its timeout fire, sent a request, and the
\* container has been destroyed.
C33_Witness ==
    /\ listener.phase = "mounted"
    /\ listener.storeAvailable
    /\ ~listener.requestTimeout
    /\ listener.loading
    /\ used.listener > 0
    /\ used.peer > 0
    /\ component = "destroyed"
    /\ listenerInbox = <<>>

AddRequestStep ==
    /\ Len(bridgeInbox') = Len(bridgeInbox) + 1
    /\ bridgeInbox'[Len(bridgeInbox')].type = ADD_MORE_DATA_EVENT
    /\ bridgeInbox'[Len(bridgeInbox')].by = "App"

\* C35: every ADD_MORE_DATA request the React App posts carries an integer
\* count of at least 1, whatever its count field holds: the number the digits
\* spell when that is 1 or more, and 1 for the empty field and for "0".
C35_AddCountAtLeastOne ==
    [][AddRequestStep =>
         LET count == bridgeInbox'[Len(bridgeInbox')].count
         IN /\ \/ count.k = "int" /\ count.n >= 1
               \/ count.k = "huge"
            /\ listener.addItemCount \in {"", "0"} => count = Num(1)
            /\ listener.addItemCount = "3" => count = Num(3)]_vars

\* The request posted with the count field empty waits in the bridge's queue.
C35_Witness ==
    /\ listener.phase = "mounted"
    /\ listener.addItemCount = ""
    /\ listener.loading
    /\ bridgeInbox = <<AddMsg(Num(1), "App")>>
====
